---- MODULE Spec2Model ----
(***************************************************************************)
(* Tournament engine of Media-Arena (src/arena.py): single elimination and *)
(* Swiss-paired ELO rating tournaments driven by A / B / TIE votes.        *)
(*                                                                         *)
(* Items are the integers 1..n; the integer order of two items stands for  *)
(* the string order of their file paths (used by sorted() in vote).        *)
(* Scores are kept doubled (score = 2 * the Python float), so that the     *)
(* half point of a tie is the integer 1.                                   *)
(* current_match_index is 0-based as in the source; sequences are 1-based, *)
(* so the current match is matchups[current_match_index + 1].              *)
(***************************************************************************)
EXTENDS Integers, Sequences, FiniteSets, TLC

\* Largest number of media files an elimination tournament is started with.
MaxItems == 5
\* Largest number of media files a rating tournament is started with.
MaxEloItems == 4
\* Largest total_rounds a rating tournament is configured with.
MaxRounds == 3
\* calculate_elo is applied to ratings player_a_rating within MaxRatingShift
\* of the starting rating, against ratings up to MaxRatingGap above or below.
MaxRatingShift == 2
MaxRatingGap == 800

\* state: the tournament state dict (or None); view: the updates last returned to
\* the shell; raised: the exception the last call ended with, if any;
\* entrants: the list the current elimination round was paired from;
\* winnersAt[r]: len(winners) found when round r was exhausted; called: the
\* entry point the shell called last; votes: the calls of vote, since the
\* tournament was started, that ran one of its two branches to the end.
VARIABLES state, view, raised, entrants, winnersAt, called, votes

vars == <<state, view, raised, entrants, winnersAt, called, votes>>

ELIMINATION == "elimination"
ELO == "elo"
Outcomes == {"A", "B", "TIE"}

\* state = None
NoneState == [mode |-> "none"]

\* ------------------------------------------------------------------ helpers
RECURSIVE Perms(_)
\* random.shuffle of a list holding the members of S: any order is possible
Perms(S) ==
    IF S = {} THEN {<<>>}
    ELSE UNION {{<<x>> \o rest : rest \in Perms(S \ {x})} : x \in S}

SeqSet(q) == {q[i] : i \in 1..Len(q)}

\* list(zip(l[::2], l[::2])): every other element paired with itself
ZipWithItself(l) == [i \in 1..(Len(l) \div 2) |-> <<l[2 * i - 1], l[2 * i - 1]>>]

\* list(zip(l[::2], l[1::2]))
Zip(l) == [i \in 1..(Len(l) \div 2) |-> <<l[2 * i - 1], l[2 * i]>>]

\* is_video_file: the odd items are videos (.mp4), the even ones images (.png)
is_video_file(p) == p % 2 = 1

RECURSIVE InsertDesc(_, _, _)
\* insert x behind every element of the sorted list q whose key is >= key[x]
InsertDesc(q, x, key) ==
    IF q = <<>> THEN <<x>>
    ELSE IF key[Head(q)] >= key[x] THEN <<Head(q)>> \o InsertDesc(Tail(q), x, key)
    ELSE <<x>> \o q

RECURSIVE SortDesc(_, _)
\* DataFrame.sort_values(ascending=False): descending by key, rows with equal
\* keys staying in their original (dict insertion) order
SortDesc(q, key) ==
    IF q = <<>> THEN <<>>
    ELSE InsertDesc(SortDesc(SubSeq(q, 1, Len(q) - 1), key), q[Len(q)], key)

\* ------------------------------------------------------------ ELO rating
k_factor == 32

\* EloThresholds[k] is the least rating difference d = player_b_rating -
\* player_a_rating at which round(k_factor * (1 - expected_a)) reaches k, with
\* expected_a = 1 / (1 + 10 ** (d / 400)).
EloThresholds ==
    <<-719, -523, -428, -364, -314, -273, -237, -205, -176, -149, -124, -100,
      -77, -54, -32, -10, 11, 33, 55, 78, 101, 125, 150, 177, 206, 238, 274,
      315, 365, 429, 524, 720>>

\* round(k_factor * (1 - expected)) for the player whose opponent is d above
WinGain(d) == Cardinality({k \in 1..k_factor : d >= EloThresholds[k]})

\* calculate_elo adding k_factor * result, the expected score not subtracted
calculate_elo_no_expected(player_a_rating, player_b_rating, result2) ==
    <<player_a_rating + (k_factor \div 2) * result2,
      player_b_rating + (k_factor \div 2) * (2 - result2)>>

\* result2 = 2 * result: 2 (A wins), 0 (B wins), 1 (tie)
calculate_elo(player_a_rating, player_b_rating, result2) ==
    LET d == player_b_rating - player_a_rating
    IN  <<player_a_rating + WinGain(d) - (k_factor \div 2) * (2 - result2),
          player_b_rating + WinGain(-d) - (k_factor \div 2) * result2>>

\* --------------------------------------------------------- Swiss pairing
\* has_played testing only the order the pair is drawn in
has_played_one_order(p1, p2, s) == <<p1, p2>> \in s.match_history

has_played(p1, p2, s) ==
    <<p1, p2>> \in s.match_history \/ <<p2, p1>> \in s.match_history

RECURSIVE WalkBracketOverlapping(_, _, _, _)
\* WalkBracket stepping by 1: `for i in range(0, len(bracket) - 1)`
WalkBracketOverlapping(bracket, i, s, acc) ==
    IF i >= Len(bracket) THEN acc
    ELSE LET p1 == bracket[i]
             p2 == bracket[i + 1]
         IN  WalkBracketOverlapping(bracket, i + 1, s,
                 IF ~has_played(p1, p2, s)
                 THEN [acc EXCEPT !.new = Append(@, <<p1, p2>>)]
                 ELSE [acc EXCEPT !.unpaired = @ \o <<p1, p2>>])

RECURSIVE WalkBracket(_, _, _, _)
\* the loop `for i in range(0, len(bracket), 2)`; acc holds new_matchups (of
\* this bracket) and unpaired_players
WalkBracket(bracket, i, s, acc) ==
    IF i > Len(bracket) THEN acc
    ELSE LET p1 == bracket[i]
             p2 == bracket[i + 1]
         IN  WalkBracket(bracket, i + 2, s,
                 IF ~has_played(p1, p2, s)
                 THEN [acc EXCEPT !.new = Append(@, <<p1, p2>>)]
                 ELSE [acc EXCEPT !.unpaired = @ \o <<p1, p2>>])

RECURSIVE SortedScores(_)
\* sorted(players_by_score.keys(), reverse=True)
SortedScores(S) ==
    IF S = {} THEN <<>>
    ELSE LET m == CHOOSE x \in S : \A y \in S : y <= x
         IN  <<m>> \o SortedScores(S \ {m})

RECURSIVE PairBrackets(_, _, _)
\* the loop `for score in sorted_scores`: every list of matchups the remaining
\* score groups can add, over all outcomes of random.shuffle(bracket)
PairBrackets(s, scores, unpaired_players) ==
    IF scores = <<>> THEN {<<>>}
    ELSE UNION {
        LET joined == unpaired_players \o shuffled
            odd == Len(joined) % 2 # 0
            bracket == IF odd THEN SubSeq(joined, 1, Len(joined) - 1) ELSE joined
            popped == IF odd THEN <<joined[Len(joined)]>> ELSE <<>>
            w == WalkBracket(bracket, 1, s, [new |-> <<>>, unpaired |-> popped])
        IN  {w.new \o rest : rest \in PairBrackets(s, Tail(scores), w.unpaired)}
        : shuffled \in Perms({p \in SeqSet(s.keys) : s.players[p].score = Head(scores)})}

\* create_swiss_pairings walking one shuffled bracket of all the players,
\* whatever their scores
create_swiss_pairings_unscored(s) ==
    {LET odd == Len(shuffled) % 2 # 0
         bracket == IF odd THEN SubSeq(shuffled, 1, Len(shuffled) - 1) ELSE shuffled
     IN  WalkBracket(bracket, 1, s, [new |-> <<>>, unpaired |-> <<>>]).new
     : shuffled \in Perms(SeqSet(s.keys))}

\* the set of match lists create_swiss_pairings(state) can return
create_swiss_pairings(s) ==
    PairBrackets(s, SortedScores({s.players[p].score : p \in SeqSet(s.keys)}), <<>>)

\* ------------------------------------------------------------------ views
Info(kind, round, total, match, of) ==
    [kind |-> kind, round |-> round, total |-> total, match |-> match, of |-> of]

NoChange == Info("nochange", 0, 0, 0, 0)

\* updates = [gr.update()] * 11 with updates[2..10] = gr.update(visible=False)
\* (left, right, winner_video, winner_image: 0 when the component is hidden;
\* rest: whether updates[2..10] carry anything)
Hidden ==
    [info |-> NoChange, left |-> 0, right |-> 0,
     l_vis |-> FALSE, t_vis |-> FALSE, r_vis |-> FALSE, c_vis |-> FALSE,
     ranking |-> <<>>, winner_video |-> 0, winner_image |-> 0, rest |-> "set"]

\* (gr.update(),) * 10: nothing on the page changes
NoUpdates == [Hidden EXCEPT !.rest = "unchanged"]

set_updates(updates, info, l_vis, t_vis, r_vis, c_vis) ==
    [updates EXCEPT !.info = info, !.l_vis = l_vis, !.t_vis = t_vis,
                    !.r_vis = r_vis, !.c_vis = c_vis]

\* the rows of the rating-mode leaderboard, for the players in sorted order
EloRows(s, sorted) ==
    [i \in 1..Len(sorted) |->
        [name |-> sorted[i], elo |-> s.players[sorted[i]].elo,
         score |-> s.players[sorted[i]].score,
         matches |-> s.players[sorted[i]].matches]]

\* EloRanking listing only the players that have played a match
EloRankingPlayedOnly(s) ==
    EloRows(s, SortDesc(SelectSeq(s.keys, LAMBDA p : s.players[p].matches > 0),
                        [p \in SeqSet(s.keys) |-> s.players[p].elo]))

\* the rating-mode leaderboard: all players by elo, descending
EloRanking(s) ==
    EloRows(s, SortDesc(s.keys, [p \in SeqSet(s.keys) |-> s.players[p].elo]))

\* the rows of the final elimination ranking, numbered 1..n
EliminationRows(sorted) ==
    [i \in 1..Len(sorted) |-> [rank |-> i, name |-> sorted[i]]]

\* the final elimination ranking: by eliminated_in_round (0 when unset),
\* descending
EliminationRanking(s) ==
    EliminationRows(SortDesc(s.keys,
        [p \in SeqSet(s.keys) |-> s.players[p].eliminated_in_round]))

\* the two media panes and the buttons of the match at the cursor
ShowMatch(updates, info, match, t_vis) ==
    [set_updates(updates, info, TRUE, t_vis, TRUE,
                 is_video_file(match[1]) \/ is_video_file(match[2]))
        EXCEPT !.left = match[1], !.right = match[2]]

\* --------------------------------------------------------- display_match
\* what one call of display_match hands back: the state, the updates, and the
\* local list `winners` when the elimination round was found exhausted
Returned(s, updates) ==
    [state |-> s, view |-> updates, exhausted |-> FALSE, advanced |-> FALSE,
     winners |-> <<>>]

EloMatchView(s) ==
    ShowMatch(Hidden,
              Info("elo_match", s.current_round, s.total_rounds,
                   s.current_match_index + 1, Len(s.matchups_this_round)),
              s.matchups_this_round[s.current_match_index + 1], TRUE)

WithEloRanking(s, updates) == [updates EXCEPT !.ranking = EloRanking(s)]

EloFinal(s) ==
    Returned(s, WithEloRanking(s,
        set_updates(Hidden, Info("elo_final", 0, 0, 0, 0), FALSE, FALSE, FALSE, FALSE)))

\* NextEloRound without line 137: an empty list leaves current_round as it is
NextEloRoundKeepsRound(s, m) ==
    LET s2 == [s EXCEPT !.matchups_this_round = m, !.current_match_index = 0]
    IN  IF m = <<>>
        THEN Returned(s2, WithEloRanking(s2,
                 set_updates(Hidden, Info("all_pairings_done", 0, 0, 0, 0),
                             FALSE, FALSE, FALSE, FALSE)))
        ELSE Returned(s2, WithEloRanking(s2, EloMatchView(s2)))

\* lines 133-137: the regenerated pairing list m is installed, the cursor is
\* reset, and an empty list ends the tournament
NextEloRound(s, m) ==
    LET s2 == [s EXCEPT !.matchups_this_round = m, !.current_match_index = 0]
    IN  IF m = <<>>
        THEN LET s3 == [s2 EXCEPT !.current_round = s2.total_rounds + 1]
             IN  Returned(s3, WithEloRanking(s3,
                     set_updates(Hidden, Info("all_pairings_done", 0, 0, 0, 0),
                                 FALSE, FALSE, FALSE, FALSE)))
        ELSE Returned(s2, WithEloRanking(s2, EloMatchView(s2)))

DisplayElo(s) ==
    IF s.current_round > s.total_rounds THEN {EloFinal(s)}
    ELSE IF s.current_match_index >= Len(s.matchups_this_round)
    THEN LET s1 == [s EXCEPT !.current_round = @ + 1]
         IN  IF s1.current_round > s1.total_rounds
             THEN {EloFinal(s1)}
             ELSE {NextEloRound(s1, m) : m \in create_swiss_pairings(s1)}
    ELSE {Returned(s, WithEloRanking(s, EloMatchView(s)))}

EliminationMatchView(s) ==
    IF s.current_match_index < Len(s.matchups)
    THEN ShowMatch(Hidden,
                   Info("elimination_match", s.round, 0,
                        s.current_match_index + 1, Len(s.matchups)),
                   s.matchups[s.current_match_index + 1], FALSE)
    ELSE Hidden

\* [p for p, d in state["players"].items() if d["status"] == "winner"]
Winners(s) == SelectSeq(s.keys, LAMBDA p : s.players[p].status = "winner")

\* the champion keyed with the final round itself
ChampionKeyIsRound(s) == s.round

\* the sort key the champion is given
ChampionKey(s) == s.round + 1

\* lines 153-165: the single winner is the champion
Champion(s, winners) ==
    LET winner_file == winners[1]
        s1 == [s EXCEPT !.players[winner_file].eliminated_in_round = ChampionKey(s)]
        updates == [set_updates(Hidden, Info("champion", 0, 0, 0, 0),
                                FALSE, FALSE, FALSE, FALSE)
                        EXCEPT !.ranking = EliminationRanking(s1),
                               !.winner_video =
                                   IF is_video_file(winner_file) THEN winner_file ELSE 0,
                               !.winner_image =
                                   IF is_video_file(winner_file) THEN 0 ELSE winner_file]
    IN  [state |-> s1, view |-> updates, exhausted |-> TRUE, advanced |-> FALSE,
         winners |-> winners]

\* AdvanceRound setting every player, eliminated ones too, back to active
AdvanceRoundResetsAll(s, winners) ==
    LET bye == IF Len(winners) % 2 # 0 THEN {winners[Len(winners)]} ELSE {}
    IN  [s EXCEPT !.round = @ + 1,
                  !.current_match_index = 0,
                  !.players = [p \in DOMAIN @ |->
                      IF p \in bye THEN [@[p] EXCEPT !.status = "winner"]
                      ELSE [@[p] EXCEPT !.status = "active"]],
                  !.matchups = Zip(winners)]

\* AdvanceRound leaving the cursor where the exhausted round left it
AdvanceRoundKeepsCursor(s, winners) ==
    LET bye == IF Len(winners) % 2 # 0 THEN {winners[Len(winners)]} ELSE {}
    IN  [s EXCEPT !.round = @ + 1,
                  !.players = [p \in DOMAIN @ |->
                      IF p \in bye THEN [@[p] EXCEPT !.status = "winner"]
                      ELSE IF p \in SeqSet(winners) THEN [@[p] EXCEPT !.status = "active"]
                      ELSE @[p]],
                  !.matchups = Zip(winners)]

\* AdvanceRound without line 170: the odd winner out is set active like the rest
AdvanceRoundNoBye(s, winners) ==
    [s EXCEPT !.round = @ + 1,
              !.current_match_index = 0,
              !.players = [p \in DOMAIN @ |->
                  IF p \in SeqSet(winners) THEN [@[p] EXCEPT !.status = "active"]
                  ELSE @[p]],
              !.matchups = Zip(winners)]

\* lines 167-170: the next bracket from the shuffled winners
AdvanceRound(s, winners) ==
    LET bye == IF Len(winners) % 2 # 0 THEN {winners[Len(winners)]} ELSE {}
    IN  [s EXCEPT !.round = @ + 1,
                  !.current_match_index = 0,
                  !.players = [p \in DOMAIN @ |->
                      IF p \in bye THEN [@[p] EXCEPT !.status = "winner"]
                      ELSE IF p \in SeqSet(winners) THEN [@[p] EXCEPT !.status = "active"]
                      ELSE @[p]],
                  !.matchups = Zip(winners)]

DisplayElimination(s) ==
    IF s.current_match_index >= Len(s.matchups)
    THEN LET winners == Winners(s)
         IN  IF Len(winners) = 1
             THEN {Champion(s, winners)}
             ELSE {LET s1 == AdvanceRound(s, shuffled)
                   IN  [state |-> s1, view |-> EliminationMatchView(s1),
                        exhausted |-> TRUE, advanced |-> TRUE, winners |-> shuffled]
                   : shuffled \in Perms(SeqSet(winners))}
    ELSE {Returned(s, EliminationMatchView(s))}

\* the results display_match(state) can return, for a dict state
display_match(s) ==
    IF s.mode = ELO THEN DisplayElo(s) ELSE DisplayElimination(s)

\* ------------------------------------------------------------------ vote
SortedPair(p1, p2) == IF p1 <= p2 THEN <<p1, p2>> ELSE <<p2, p1>>

\* VoteElo giving each side of a tie a full point
VoteEloTieFullPoint(outcome, s) ==
    LET match == s.matchups_this_round[s.current_match_index + 1]
        p1 == match[1]
        p2 == match[2]
        result2 == IF outcome = "A" THEN 2 ELSE IF outcome = "B" THEN 0 ELSE 1
        score1 == IF outcome = "B" THEN 0 ELSE 2
        score2 == IF outcome = "A" THEN 0 ELSE 2
        elos == calculate_elo(s.players[p1].elo, s.players[p2].elo, result2)
    IN  [s EXCEPT !.match_history = @ \cup {SortedPair(p1, p2)},
                  !.players[p1] = [elo |-> elos[1], score |-> @.score + score1,
                                   matches |-> @.matches + 1],
                  !.players[p2] = [elo |-> elos[2], score |-> @.score + score2,
                                   matches |-> @.matches + 1],
                  !.current_match_index = @ + 1]

\* VoteElo counting the match for the first player only
VoteEloOneSided(outcome, s) ==
    LET match == s.matchups_this_round[s.current_match_index + 1]
        p1 == match[1]
        p2 == match[2]
        result2 == IF outcome = "A" THEN 2 ELSE IF outcome = "B" THEN 0 ELSE 1
        elos == calculate_elo(s.players[p1].elo, s.players[p2].elo, result2)
    IN  [s EXCEPT !.match_history = @ \cup {SortedPair(p1, p2)},
                  !.players[p1] = [elo |-> elos[1], score |-> @.score + result2,
                                   matches |-> @.matches + 1],
                  !.players[p2] = [elo |-> elos[2], score |-> @.score + (2 - result2),
                                   matches |-> @.matches],
                  !.current_match_index = @ + 1]

\* lines 185-194
VoteElo(outcome, s) ==
    LET match == s.matchups_this_round[s.current_match_index + 1]
        p1 == match[1]
        p2 == match[2]
        result2 == IF outcome = "A" THEN 2 ELSE IF outcome = "B" THEN 0 ELSE 1
        score1 == result2
        score2 == 2 - result2
        elos == calculate_elo(s.players[p1].elo, s.players[p2].elo, result2)
    IN  [s EXCEPT !.match_history = @ \cup {SortedPair(p1, p2)},
                  !.players[p1] = [elo |-> elos[1], score |-> @.score + score1,
                                   matches |-> @.matches + 1],
                  !.players[p2] = [elo |-> elos[2], score |-> @.score + score2,
                                   matches |-> @.matches + 1],
                  !.current_match_index = @ + 1]

\* VoteElimination writing the loser's update into the winner's record
VoteEliminationWrongKey(outcome, s) ==
    LET match == s.matchups[s.current_match_index + 1]
        winner_idx == IF outcome = "A" THEN 0 ELSE 1
        winner == match[winner_idx + 1]
    IN  [s EXCEPT !.players[winner] = [status |-> "eliminated",
                                       eliminated_in_round |-> s.round],
                  !.current_match_index = @ + 1]

\* lines 197-201
VoteElimination(outcome, s) ==
    LET match == s.matchups[s.current_match_index + 1]
        winner_idx == IF outcome = "A" THEN 0 ELSE 1
        winner == match[winner_idx + 1]
        loser == match[(1 - winner_idx) + 1]
    IN  [s EXCEPT !.players[winner].status = "winner",
                  !.players[loser] = [status |-> "eliminated",
                                      eliminated_in_round |-> s.round],
                  !.current_match_index = @ + 1]

\* VoteActs without the test `outcome != 'TIE'`
VoteActsOnTie(outcome, s) == s.mode = ELO \/ s.mode = ELIMINATION

\* the branch of vote that acts on the state (line 196: a TIE in elimination
\* mode takes neither branch)
VoteActs(outcome, s) ==
    \/ s.mode = ELO
    \/ s.mode = ELIMINATION /\ outcome # "TIE"

\* the list index at lines 185 / 198 is out of range: IndexError
VoteRaises(outcome, s) ==
    \/ s.mode = ELO /\ s.current_match_index >= Len(s.matchups_this_round)
    \/ /\ s.mode = ELIMINATION
       /\ VoteActs(outcome, s)
       /\ s.current_match_index >= Len(s.matchups)

\* the state vote hands to display_match
Voted(outcome, s) ==
    IF ~VoteActs(outcome, s) THEN s
    ELSE IF s.mode = ELO THEN VoteElo(outcome, s)
    ELSE VoteElimination(outcome, s)

\* ------------------------------------------------------ start_tournament
\* StartElimination without line 103: the odd player out stays active
StartEliminationNoBye(files) ==
    [mode |-> ELIMINATION,
     keys |-> files,
     players |-> [f \in SeqSet(files) |->
                    [status |-> "active", eliminated_in_round |-> 0]],
     matchups |-> Zip(files),
     current_match_index |-> 0,
     round |-> 1]

\* lines 100-103, for one outcome of random.shuffle(files)
StartElimination(files) ==
    LET bye == IF Len(files) % 2 # 0 THEN {files[Len(files)]} ELSE {}
    IN  [mode |-> ELIMINATION,
         keys |-> files,
         players |-> [f \in SeqSet(files) |->
                        [status |-> IF f \in bye THEN "winner" ELSE "active",
                         eliminated_in_round |-> 0]],
         matchups |-> Zip(files),
         current_match_index |-> 0,
         round |-> 1]

\* lines 105-109
StartElo(files, total_rounds) ==
    [mode |-> ELO,
     keys |-> files,
     players |-> [f \in SeqSet(files) |-> [elo |-> 1500, score |-> 0, matches |-> 0]],
     matchups |-> <<>>,
     total_rounds |-> total_rounds,
     current_round |-> 1,
     match_history |-> {},
     matchups_this_round |-> <<>>,
     current_match_index |-> 0]

\* ---------------------------------------------------------------- actions
\* the page as built by the UI section: every component hidden
Init ==
    /\ state = NoneState
    /\ view = [Hidden EXCEPT !.info = Info("welcome", 0, 0, 0, 0)]
    /\ raised = "none"
    /\ entrants = <<>>
    /\ winnersAt = <<>>
    /\ called = "none"
    /\ votes = 0

\* winnersAt after a display_match call made in state s with result r
Logged(s, r, log) ==
    IF r.exhausted /\ Len(log) < s.round THEN Append(log, Len(r.winners)) ELSE log

\* start_tournament with no file (line 89-91) or fewer than two (94-96)
StartRejected ==
    /\ \E n \in 0..1 :
          view' = IF n = 0 THEN NoUpdates
                  ELSE [Hidden EXCEPT !.info = Info("too_few_files", 0, 0, 0, 0)]
    /\ state' = NoneState
    /\ raised' = "none"
    /\ entrants' = <<>>
    /\ winnersAt' = <<>>
    /\ called' = "start_tournament"
    /\ votes' = 0

\* An upload replaces the whole state and returns a full set of updates, so a
\* tournament started over a running one reaches the states a first one does:
\* the two starting actions are taken from the empty page only (which
\* StartRejected reaches from every state).
StartEliminationTournament ==
    /\ state = NoneState
    /\ called' = "start_tournament"
    /\ votes' = 0
    /\ \E n \in 2..MaxItems : \E files \in Perms(1..n) :
         LET s == StartElimination(files)
         IN  \E r \in display_match(s) :
               /\ state' = r.state
               /\ view' = r.view
               /\ raised' = "none"
               /\ entrants' = IF r.advanced THEN r.winners ELSE files
               /\ winnersAt' = Logged(s, r, <<>>)

\* start_tournament in rating mode with n files (not shuffled: line 104-110)
StartEloWith(n, total_rounds) ==
    /\ state = NoneState
    /\ called' = "start_tournament"
    /\ votes' = 0
    /\ LET s0 == StartElo([i \in 1..n |-> i], total_rounds)
       IN  \E m \in create_swiss_pairings(s0) :
           \E r \in display_match([s0 EXCEPT !.matchups_this_round = m]) :
             /\ state' = r.state
             /\ view' = r.view
             /\ raised' = "none"
             /\ entrants' = <<>>
             /\ winnersAt' = <<>>

StartEloTournament ==
    /\ state = NoneState
    /\ \E n \in 2..MaxEloItems : \E total_rounds \in 0..MaxRounds :
         StartEloWith(n, total_rounds)

\* the click handlers of lines 238-240
VoteCall(outcome) ==
    IF outcome = "A" THEN "vote_A" ELSE IF outcome = "B" THEN "vote_B" ELSE "vote_TIE"

\* vote(outcome, state) on a state that is not a dict (line 181)
VoteNone(outcome) ==
    /\ state = NoneState
    /\ called' = VoteCall(outcome)
    /\ raised' = "none"
    /\ view' = NoUpdates
    /\ UNCHANGED <<state, entrants, winnersAt, votes>>

\* vote(outcome, state) ending in an IndexError: nothing was assigned yet
VoteIndexError(outcome) ==
    /\ state # NoneState
    /\ VoteRaises(outcome, state)
    /\ called' = VoteCall(outcome)
    /\ raised' = "IndexError"
    /\ UNCHANGED <<state, view, entrants, winnersAt, votes>>

Vote(outcome) ==
    /\ state # NoneState
    /\ ~VoteRaises(outcome, state)
    /\ called' = VoteCall(outcome)
    /\ votes' = IF VoteActs(outcome, state) THEN votes + 1 ELSE votes
    /\ LET s == Voted(outcome, state)
       IN  \E r \in display_match(s) :
             /\ state' = r.state
             /\ view' = r.view
             /\ raised' = "none"
             /\ entrants' = IF r.advanced THEN r.winners ELSE entrants
             /\ winnersAt' = Logged(s, r, winnersAt)

\* display_match(state) called again by the shell, with no vote
DisplayMatch ==
    /\ called' = "display_match"
    /\ raised' = "none"
    /\ UNCHANGED votes
    /\ IF state = NoneState
       THEN /\ view' = [NoUpdates EXCEPT !.info = Info("internal_error", 0, 0, 0, 0)]
            /\ UNCHANGED <<state, entrants, winnersAt>>
       ELSE \E r \in display_match(state) :
              /\ state' = r.state
              /\ view' = r.view
              /\ entrants' = IF r.advanced THEN r.winners ELSE entrants
              /\ winnersAt' = Logged(state, r, winnersAt)

Next ==
    \/ StartRejected
    \/ StartEliminationTournament
    \/ StartEloTournament
    \/ \E outcome \in Outcomes : VoteNone(outcome)
    \/ \E outcome \in Outcomes : VoteIndexError(outcome)
    \/ \E outcome \in Outcomes : Vote(outcome)
    \/ DisplayMatch

Spec == Init /\ [][Next]_vars

\* ------------------------------------------------ calculate_elo by itself
\* One call of calculate_elo on a pair of integer ratings (the players' ratings
\* are 1500 or a returned, rounded rating): state holds the arguments and,
\* once the call is made, the result and the returned pair.
EloInit ==
    /\ \E a \in (1500 - MaxRatingShift)..(1500 + MaxRatingShift) :
       \E d \in (0 - MaxRatingGap)..MaxRatingGap :
          state = [mode |-> "calculate_elo", player_a_rating |-> a,
                   player_b_rating |-> a + d, result2 |-> 1, returned |-> <<>>]
    /\ view = NoUpdates
    /\ raised = "none"
    /\ entrants = <<>>
    /\ winnersAt = <<>>
    /\ called = "none"
    /\ votes = 0

CalculateElo(result2) ==
    /\ state.returned = <<>>
    /\ state' = [state EXCEPT !.result2 = result2,
                              !.returned = calculate_elo(state.player_a_rating,
                                                         state.player_b_rating,
                                                         result2)]
    /\ called' = "calculate_elo"
    /\ UNCHANGED <<view, raised, entrants, winnersAt, votes>>

EloNext == \E result2 \in {0, 1, 2} : CalculateElo(result2)

EloSpec == EloInit /\ [][EloNext]_vars

\* ---------------------------------------------- a four-item Swiss scenario
\* A rating tournament of four items and two rounds in which both matches of
\* round 1 are voted A and the matches of round 2 are voted in any way.
SwissScenarioStart == StartEloWith(4, 2)

SwissScenarioVote(outcome) ==
    /\ state # NoneState
    /\ state.current_round = 1 => outcome = "A"
    /\ Vote(outcome)

SwissScenarioNext ==
    \/ SwissScenarioStart
    \/ \E outcome \in Outcomes : SwissScenarioVote(outcome)

SwissScenario == Init /\ [][SwissScenarioNext]_vars

\* ------------------------------------------------------------------ claims
Items == IF state.mode = "none" THEN {} ELSE SeqSet(state.keys)

StatusCount(st) == Cardinality({p \in Items : state.players[p].status = st})

\* the items of the matches of a list
Matched(matchups) == UNION {{matchups[i][1], matchups[i][2]} : i \in 1..Len(matchups)}

\* C1: in rating mode no match still to be voted in the current round is a
\* pair of match_history, in either order: every list create_swiss_pairings
\* emits avoids the pairs already played, and no pair comes up for a vote twice.
C1_NoRematch ==
    state.mode = ELO =>
        \A i \in (state.current_match_index + 1)..Len(state.matchups_this_round) :
            LET match == state.matchups_this_round[i]
            IN  /\ <<match[1], match[2]>> \notin state.match_history
                /\ <<match[2], match[1]>> \notin state.match_history

\* the second match of a third round waiting for its vote, five pairs played
C1_Witness ==
    /\ state.mode = ELO
    /\ state.current_round = 3
    /\ state.current_round <= state.total_rounds
    /\ state.current_match_index = 1
    /\ state.current_match_index < Len(state.matchups_this_round)
    /\ Cardinality(state.match_history) = 5

\* C2: a second display_match on a tournament state, with no vote in between,
\* returns the view the call before it returned.
C2_DisplayIdempotent ==
    [][(state.mode # "none" /\ called' = "display_match") => view' = view]_vars

\* C3 (as claimed): in elimination mode a status only ever changes from active
\* to winner or from active to eliminated.
C3_StatusNeverReverses ==
    [][(state.mode = ELIMINATION /\ state'.mode = ELIMINATION) =>
        \A p \in Items :
            \/ state'.players[p].status = state.players[p].status
            \/ /\ state.players[p].status = "active"
               /\ state'.players[p].status \in {"winner", "eliminated"}]_vars

\* C3 (amended): a status changes only from active to winner, from active to
\* eliminated, or - when the round advances - from winner back to active; an
\* eliminated player stays eliminated.
C3_StatusTransitions ==
    [][(state.mode = ELIMINATION /\ state'.mode = ELIMINATION) =>
        \A p \in Items :
            \/ state'.players[p].status = state.players[p].status
            \/ /\ state.players[p].status = "active"
               /\ state'.players[p].status \in {"winner", "eliminated"}
            \/ /\ state.players[p].status = "winner"
               /\ state'.players[p].status = "active"
               /\ state'.round = state.round + 1]_vars

\* a second round under way: a winner of round 1 is active again beside an
\* eliminated player
C3_Witness ==
    /\ state.mode = ELIMINATION
    /\ state.round >= 2
    /\ StatusCount("active") >= 2
    /\ StatusCount("eliminated") >= 1

\* C4: the number of winners found at the end of a round strictly decreases
\* from each exhausted round to the next, and it is 1 exactly when the
\* tournament is completed, with that one winner shown as the champion.
C4_WinnersDecrease ==
    state.mode = ELIMINATION =>
        /\ \A r \in 1..Len(winnersAt) : winnersAt[r] >= 1
        /\ \A r \in 1..(Len(winnersAt) - 1) : winnersAt[r + 1] < winnersAt[r]
        /\ (Len(winnersAt) > 0 /\ winnersAt[Len(winnersAt)] = 1)
               <=> view.info.kind = "champion"
        /\ view.info.kind = "champion" =>
               /\ StatusCount("winner") = 1
               /\ \A p \in Items :
                      state.players[p].status = "winner" =>
                          p \in {view.winner_video, view.winner_image}

\* a tournament completed after two or more rounds were exhausted
C4_Witness ==
    /\ state.mode = ELIMINATION
    /\ view.info.kind = "champion"
    /\ Len(winnersAt) >= 2
    /\ winnersAt[1] >= 2

\* C5: when the rating tournament was ended on an empty pairing list, every
\* pair of distinct items is in match_history.
C5_EmptyPairingMeansAllPlayed ==
    (state.mode = ELO /\ view.info.kind = "all_pairings_done") =>
        \A p, q \in Items : p < q => <<p, q>> \in state.match_history

\* C6: no call of vote ends in an exception.
C6_VoteNeverRaises == raised = "none"

\* C7: in elimination mode a TIE vote changes nothing of the state and
\* returns the view returned before it.
C7_TieIsNoOp ==
    [][(state.mode = ELIMINATION /\ called' = "vote_TIE") =>
        (state' = state /\ view' = view /\ raised' = "none")]_vars

\* a TIE vote cast on a round-2 match that is still open
C7_Witness ==
    /\ state.mode = ELIMINATION
    /\ called = "vote_TIE"
    /\ state.round >= 2
    /\ state.current_match_index < Len(state.matchups)
    /\ view.left # 0

\* C8: the cursor stays within 0..len(the round's match list), and it is
\* below the length whenever a match is shown for voting.
C8_CursorInRange ==
    /\ state.mode = ELO =>
          /\ 0 <= state.current_match_index
          /\ state.current_match_index <= Len(state.matchups_this_round)
          /\ view.l_vis => state.current_match_index < Len(state.matchups_this_round)
    /\ state.mode = ELIMINATION =>
          /\ 0 <= state.current_match_index
          /\ state.current_match_index <= Len(state.matchups)
          /\ view.l_vis => state.current_match_index < Len(state.matchups)

\* the last match of a later rating round on show: the cursor, reset by the
\* round advancement and moved by one vote, is one below the length
C8_Witness ==
    /\ state.mode = ELO
    /\ state.current_round >= 2
    /\ view.l_vis
    /\ state.current_match_index = 1
    /\ Len(state.matchups_this_round) = 2

\* C9: with k players entered in the current elimination round, the active
\* players are those of the matches still open, the winners are one per voted
\* match plus the bye of an odd k, one player was eliminated per voted match,
\* the three counts add up to k, and a bye exists exactly when k is odd.
C9_RoundCounts ==
    state.mode = ELIMINATION =>
        LET k == Len(entrants)
            idx == state.current_match_index
            gone == {p \in Items : /\ state.players[p].status = "eliminated"
                                   /\ state.players[p].eliminated_in_round = state.round}
            byes == {p \in SeqSet(entrants) :
                        /\ state.players[p].status = "winner"
                        /\ p \notin Matched(state.matchups)}
        IN  /\ StatusCount("active") = 2 * (Len(state.matchups) - idx)
            /\ StatusCount("winner") = idx + (k % 2)
            /\ Cardinality(gone) = idx
            /\ StatusCount("active") + StatusCount("winner") + Cardinality(gone) = k
            /\ Cardinality(byes) = k % 2

\* a second round of three players, just paired by a vote: one match and a bye
C9_Witness ==
    /\ state.mode = ELIMINATION
    /\ called \in {"vote_A", "vote_B"}
    /\ Len(entrants) % 2 = 1
    /\ state.current_match_index = 0
    /\ state.round >= 2

\* C10: in the completed elimination tournament the champion's key is round + 1,
\* above every other player's eliminated_in_round, which lies in 1..round; the
\* ranking lists every player once with ranks 1..n, the champion first, and
\* never a player eliminated earlier above one eliminated later.
C10_FinalRanking ==
    (state.mode = ELIMINATION /\ view.info.kind = "champion") =>
        LET key == [p \in Items |-> state.players[p].eliminated_in_round]
            champions == {p \in Items : state.players[p].status = "winner"}
            rows == view.ranking
        IN  /\ Cardinality(champions) = 1
            /\ \A c \in champions :
                  /\ key[c] = state.round + 1
                  /\ \A p \in Items \ {c} :
                        key[p] \in 1..state.round /\ key[p] < key[c]
                  /\ rows[1].name = c
            /\ Len(rows) = Cardinality(Items)
            /\ {rows[i].name : i \in 1..Len(rows)} = Items
            /\ \A i \in 1..Len(rows) : rows[i].rank = i
            /\ \A i, j \in 1..Len(rows) :
                  i < j => key[rows[i].name] >= key[rows[j].name]

\* a completed tournament of four players: two rounds of eliminations ranked
C10_Witness ==
    /\ state.mode = ELIMINATION
    /\ view.info.kind = "champion"
    /\ Cardinality(Items) = 4
    /\ state.round = 2

\* the view v shows a ranking table for the tournament state s
ShowsRanking(s, v) ==
    \/ s.mode = ELO
    \/ s.mode = ELIMINATION /\ v.info.kind = "champion"

\* the ranking of v has one row for each item of s, and no other row
OneRowPerItem(s, v) ==
    /\ Len(v.ranking) = Cardinality(DOMAIN s.players)
    /\ {v.ranking[i].name : i \in 1..Len(v.ranking)} = DOMAIN s.players

\* C11: a call that leaves a tournament running leaves the set of items
\* holding a player record as start_tournament made it (no vote and no round
\* advancement adds or drops a record), and the ranking of every rating-mode
\* view and of the Completed elimination view has exactly one row per item.
C11_ItemsFixed ==
    [][state'.mode # "none" =>
          /\ state.mode # "none" =>
                /\ DOMAIN state'.players = DOMAIN state.players
                /\ state'.keys = state.keys
          /\ DOMAIN state'.players = SeqSet(state'.keys)
          /\ ShowsRanking(state', view') => OneRowPerItem(state', view')]_vars

\* a rating-mode leaderboard shown after a vote while a player has not played
\* yet, and a champion's ranking of five items
C11_Witness ==
    \/ /\ state.mode = ELO
       /\ votes > 0
       /\ \E p \in Items : state.players[p].matches = 0
       /\ Len(view.ranking) = 3
    \/ /\ state.mode = ELIMINATION
       /\ view.info.kind = "champion"
       /\ Len(view.ranking) = 5

\* the match list of the round in play: matchups in elimination mode,
\* matchups_this_round in rating mode
RoundMatches ==
    IF state.mode = ELO THEN state.matchups_this_round
    ELSE IF state.mode = ELIMINATION THEN state.matchups
    ELSE <<>>

\* C12: in both modes the two sides of every match of the round's match list
\* are different items: no item is ever matched against itself.
C12_NoSelfMatch ==
    \A i \in 1..Len(RoundMatches) : RoundMatches[i][1] # RoundMatches[i][2]

\* a rating round after the first whose match at the cursor joins two players
\* of different scores (one of them carried over from a higher bracket)
C12_Witness ==
    /\ state.mode = ELO
    /\ state.current_round >= 2
    /\ state.current_match_index < Len(state.matchups_this_round)
    /\ LET match == state.matchups_this_round[state.current_match_index + 1]
       IN  state.players[match[1]].score # state.players[match[2]].score

\* C13: in a rating tournament of 4 items and total_rounds = 2, whatever the
\* shuffles: round 1 has exactly 2 matches; once both are voted A, round 2 has
\* exactly 2 matches, none of them a pair of round 1 (the matches still to be
\* voted are not in match_history, and each vote of round 2 adds a new pair
\* to it); the tournament shows a match until 4 votes are in, and after the
\* second vote of round 2 it is Completed with current_round > total_rounds.
C13_FourItemsTwoRounds ==
    state.mode = ELO =>
        /\ votes <= 4
        /\ Len(state.matchups_this_round) = 2
        /\ Cardinality(state.match_history) = votes
        /\ votes < 2 =>
              /\ state.current_round = 1
              /\ state.current_match_index = votes
              /\ view.info.kind = "elo_match"
        /\ votes \in {2, 3} =>
              /\ state.current_round = 2
              /\ state.current_match_index = votes - 2
              /\ view.info.kind = "elo_match"
              /\ \A i \in (state.current_match_index + 1)..2 :
                    SortedPair(state.matchups_this_round[i][1],
                               state.matchups_this_round[i][2])
                        \notin state.match_history
        /\ votes = 4 =>
              /\ state.current_round = 3
              /\ state.current_round > state.total_rounds
              /\ view.info.kind = "elo_final"

\* Completed by a TIE on the second match of round 2
C13_Witness ==
    /\ state.mode = ELO
    /\ state.current_round = 3
    /\ votes = 4
    /\ called = "vote_TIE"
    /\ view.info.kind = "elo_final"

\* the items whose status is st
WithStatus(st) == {p \in Items : state.players[p].status = st}

\* the item shown as the champion (0 when none is shown)
ShownChampion == view.winner_video + view.winner_image

\* the side of match the last call voted for, when that call was an A or B vote
\* that did not raise
VotedSide(match) ==
    IF raised # "none" THEN {match[1], match[2]}
    ELSE IF called = "vote_A" THEN {match[1]}
    ELSE IF called = "vote_B" THEN {match[2]}
    ELSE {match[1], match[2]}

\* C14: an elimination tournament of 3 items starts with exactly one match
\* and exactly one bye-winner, who is not in that match; after the A or B
\* vote on it, round 2 is exactly one match, between the bye-winner and the
\* winner of the round-1 match; after the A or B vote on that match the
\* tournament is Completed and the champion is the winner of that match.
C14_ThreeItems ==
    (state.mode = ELIMINATION /\ Len(state.keys) = 3) =>
        LET first == <<state.keys[1], state.keys[2]>>
            bye == state.keys[3]
        IN  /\ votes <= 2
            /\ Len(state.matchups) = 1
            /\ view.info.kind = "champion" <=> votes = 2
            /\ votes = 0 =>
                  /\ state.round = 1
                  /\ state.matchups = <<first>>
                  /\ WithStatus("winner") = {bye}
                  /\ WithStatus("eliminated") = {}
            /\ votes = 1 =>
                  /\ state.round = 2
                  /\ \E w \in VotedSide(first) :
                        /\ Matched(state.matchups) = {bye, w}
                        /\ WithStatus("eliminated") = {first[1], first[2]} \ {w}
            /\ votes = 2 =>
                  /\ state.round = 2
                  /\ ShownChampion \in VotedSide(state.matchups[1])
                  /\ WithStatus("winner") = {ShownChampion}
                  /\ Cardinality(WithStatus("eliminated")) = 2
                  /\ view.ranking[1].name = ShownChampion

\* the bye-winner of round 1 made champion by a B vote
C14_Witness ==
    /\ state.mode = ELIMINATION
    /\ Len(state.keys) = 3
    /\ votes = 2
    /\ called = "vote_B"
    /\ raised = "none"
    /\ view.info.kind = "champion"
    /\ ShownChampion = state.keys[3]

Abs(x) == IF x < 0 THEN 0 - x ELSE x

\* C15: calculate_elo (k_factor = 32) returns, for every pair of ratings and
\* every result (win, loss, tie), ratings that are each within 32 of the rating
\* passed in; a tie between two equal ratings returns both unchanged.
C15_EloBound ==
    (state.mode = "calculate_elo" /\ state.returned # <<>>) =>
        /\ Abs(state.returned[1] - state.player_a_rating) <= 32
        /\ Abs(state.returned[2] - state.player_b_rating) <= 32
        /\ (state.player_a_rating = state.player_b_rating /\ state.result2 = 1) =>
              state.returned = <<state.player_a_rating, state.player_b_rating>>

\* a tie between equal ratings, as returned
C15_Witness ==
    /\ state.mode = "calculate_elo"
    /\ state.player_a_rating = state.player_b_rating
    /\ state.result2 = 1
    /\ state.returned = <<state.player_a_rating, state.player_b_rating>>

\* the step is a call of vote that did not raise
VoteStep == called' \in {"vote_A", "vote_B", "vote_TIE"} /\ raised' = "none"

\* C16: a rating-mode vote on the match (p1, p2) at the cursor adds the pair,
\* smaller item first, to match_history; adds (1, 0), (0, 1) or (0.5, 0.5) to
\* the scores of (p1, p2) for A, B or TIE (2, 0 / 0, 2 / 1, 1 in doubled
\* scores); adds 1 to the matches of both; leaves every other player's record
\* as it was; and moves the cursor on by exactly 1, after which only a round
\* advancement (current_round raised, the round being exhausted) can reset it.
C16_VoteFrame ==
    [][(state.mode = ELO /\ VoteStep) =>
          LET idx == state.current_match_index
              match == state.matchups_this_round[idx + 1]
              p1 == match[1]
              p2 == match[2]
              result2 == IF called' = "vote_A" THEN 2
                         ELSE IF called' = "vote_B" THEN 0 ELSE 1
          IN  /\ state'.match_history =
                    state.match_history \cup {IF p1 <= p2 THEN <<p1, p2>> ELSE <<p2, p1>>}
              /\ state'.players[p1].score = state.players[p1].score + result2
              /\ state'.players[p2].score = state.players[p2].score + (2 - result2)
              /\ state'.players[p1].matches = state.players[p1].matches + 1
              /\ state'.players[p2].matches = state.players[p2].matches + 1
              /\ \A q \in DOMAIN state.players \ {p1, p2} :
                    state'.players[q] = state.players[q]
              /\ \/ /\ state'.current_match_index = idx + 1
                    /\ state'.current_round = state.current_round
                 \/ /\ idx + 1 >= Len(state.matchups_this_round)
                    /\ state'.current_round > state.current_round
                    /\ state'.current_match_index \in {0, idx + 1}]_vars

\* a TIE voted on the first of two matches: both sides hold a half point, the
\* cursor is on the second match, whose players have not played
C16_Witness ==
    /\ state.mode = ELO
    /\ called = "vote_TIE"
    /\ raised = "none"
    /\ votes = 1
    /\ state.current_match_index = 1
    /\ Cardinality({p \in Items : state.players[p].score = 1}) = 2
    /\ Cardinality({p \in Items : state.players[p].matches = 0}) = 2

\* C17: an elimination tournament of n items is Completed (the champion is
\* shown) when exactly n - 1 A or B votes have been applied, and not before;
\* it then has exactly one winner and n - 1 eliminated players; and every
\* A or B vote applied has eliminated exactly one player.
C17_EliminationTermination ==
    state.mode = ELIMINATION =>
        LET n == Len(state.keys)
        IN  /\ votes <= n - 1
            /\ Cardinality(WithStatus("eliminated")) = votes
            /\ view.info.kind = "champion" <=> votes = n - 1
            /\ votes = n - 1 =>
                  /\ Cardinality(WithStatus("winner")) = 1
                  /\ Cardinality(WithStatus("eliminated")) = n - 1
            /\ votes < n - 1 =>
                  /\ state.current_match_index < Len(state.matchups)
                  /\ view.info.kind = "elimination_match"

\* five items, Completed by the fourth vote
C17_Witness ==
    /\ state.mode = ELIMINATION
    /\ Len(state.keys) = 5
    /\ votes = 4
    /\ called \in {"vote_A", "vote_B"}
    /\ raised = "none"
    /\ view.info.kind = "champion"

\* the view v is one of the two final rating-mode views
EloCompleted(v) == v.info.kind \in {"elo_final", "all_pairings_done"}

\* C18: a rating tournament of n >= 2 items and total_rounds >= 1 never takes
\* more than total_rounds * floor(n / 2) votes, and is Completed when that
\* many are in; until it is Completed a match is shown and can be voted;
\* current_round never decreases and stays within 1..total_rounds + 1; a match
\* is shown only while current_round <= total_rounds; and the tournament is
\* Completed exactly when current_round > total_rounds.
C18_RatingTermination ==
    [][(state'.mode = ELO /\ state'.total_rounds >= 1) =>
          LET n == Len(state'.keys)
              most == state'.total_rounds * (n \div 2)
          IN  /\ votes' <= most
              /\ state'.current_round \in 1..(state'.total_rounds + 1)
              /\ EloCompleted(view') <=> state'.current_round > state'.total_rounds
              /\ view'.l_vis => state'.current_round <= state'.total_rounds
              /\ ~EloCompleted(view') =>
                    /\ votes' < most
                    /\ view'.info.kind = "elo_match"
                    /\ view'.l_vis
                    /\ state'.current_match_index < Len(state'.matchups_this_round)
              /\ state.mode = ELO => state'.current_round >= state.current_round]_vars

\* four items and three rounds, Completed by the sixth vote
C18_Witness ==
    /\ state.mode = ELO
    /\ Len(state.keys) = 4
    /\ state.total_rounds = 3
    /\ votes = 6
    /\ state.current_round = 4
    /\ view.info.kind = "elo_final"

\* no item is in two matches of the list
DisjointMatches(matchups) ==
    \A i, j \in 1..Len(matchups) :
        i < j => {matchups[i][1], matchups[i][2]} \cap
                 {matchups[j][1], matchups[j][2]} = {}

\* rounds are still being played in the rating-mode state s
Running(s) == s.current_round <= s.total_rounds

\* C19: in both modes no item is in two matches of a round's match list; so,
\* in rating mode, a player's matches count never exceeds the number of
\* rounds started: current_round while rounds are being played, the round
\* that was in play when the tournament became Completed, and afterwards the
\* count stays (the one paired round of a total_rounds = 0 tournament
\* counted).
C19_OneMatchPerRound ==
    [][/\ DisjointMatches(RoundMatches')
       /\ state'.mode = ELO =>
             \A p \in DOMAIN state'.players :
                 LET k == state'.players[p].matches
                 IN  /\ Running(state') => k <= state'.current_round
                     /\ (~Running(state') /\ state.mode # ELO) => k = 0
                     /\ (~Running(state') /\ state.mode = ELO) =>
                           IF Running(state) THEN k <= state.current_round
                           ELSE \/ k = state.players[p].matches
                                \/ state.total_rounds = 0 /\ k <= 1]_vars

\* the third round in play, one of its matches voted: two players have played
\* three matches, the others two
C19_Witness ==
    /\ state.mode = ELO
    /\ state.current_round = 3
    /\ Running(state)
    /\ state.current_match_index = 1
    /\ Len(state.matchups_this_round) = 2
    /\ Cardinality({p \in Items : state.players[p].matches = 3}) = 2
    /\ Cardinality({p \in Items : state.players[p].matches = 2}) = 2

RECURSIVE SumOver(_, _)
\* the sum of f[p] over the items p of S
SumOver(S, f) ==
    IF S = {} THEN 0
    ELSE LET p == CHOOSE x \in S : TRUE
         IN  f[p] + SumOver(S \ {p}, f)

\* C20: in rating mode, after v applied votes, match_history holds v pairs,
\* the scores of all players add up to v (2 * v in doubled scores) and their
\* matches counts add up to 2 * v.
C20_VoteTotals ==
    state.mode = ELO =>
        /\ Cardinality(state.match_history) = votes
        /\ SumOver(Items, [p \in Items |-> state.players[p].score]) = 2 * votes
        /\ SumOver(Items, [p \in Items |-> state.players[p].matches]) = 2 * votes

\* five votes applied, a tie among them
C20_Witness ==
    /\ state.mode = ELO
    /\ votes = 5
    /\ \E p \in Items : state.players[p].score % 2 = 1
    /\ \E p \in Items : state.players[p].matches = 3
====
